---- MODULE Spec2Model ----
(***************************************************************************)
(* Model of VideoTranscriberApp (src/video_transcriber.py): the processing *)
(* pipeline started by start_processing and run by process_video on a      *)
(* worker thread, with its collaborators (ffmpeg, Whisper, python-docx)    *)
(* as nondeterministic steps.  The tk variables are the configuration; the *)
(* foreground thread may set them at any time, also while a worker runs.   *)
(* Widget layout and widget enable/disable states are not modelled:        *)
(* start_processing is the entry point any caller may invoke.              *)
(* format_timestamp and the table of create_docx_transcript are functions  *)
(* of their arguments; SpecFormat and SpecRender apply them on their own.  *)
(***************************************************************************)
EXTENDS Integers, Sequences, FiniteSets, TLC

(* ---------------- bounds ---------------- *)
\* runs carried through to their end
MaxRuns == 1
\* worker threads the model has room for at one time
MaxThreads == 2
\* configuration changes made during one run
MaxEdits == 1
\* format_timestamp is applied to every whole number of seconds up to this
MaxSeconds == 3700
\* segments of a transcription result
MaxSegments == 2

(* ---------------- value sets ---------------- *)
\* paths are sequences of name tokens; <<>> is the empty string / None
NoPath == <<>>
VideoA == <<"a", ".mp4">>
VideoGone == <<"gone", ".mp4">>
\* video files present on disk (os.path.exists, line 323)
ExistingVideos == {VideoA}
VideoChoices == {NoPath, VideoGone} \cup ExistingVideos
FolderChoices == {NoPath, <<"out">>}
AudioFormats == {"mp3", "wav"}
WhisperModels == {"tiny", "base"}
\* where ffmpeg is installed: on the PATH, or nowhere.  (An ffmpeg.exe next to
\* the script, "local", differs from "path" only in that find_ffmpeg starts
\* no `ffmpeg -version` process.)
FfmpegInstalls == {"path", "none"}
\* what the output folder holds when the application starts: nothing, or a
\* file a_temp.wav that some earlier session or other program left there
FilesAtStart == {{}, {<<"out", "a", "_temp", ".", "wav">>}}
\* stderr texts of a failing ffmpeg
Diagnostics == {"stderr1"}
Threads == 1..MaxThreads
\* arguments of format_timestamp: every second of the first hour and beyond,
\* and longer times with one-, two- and three-digit hour counts
TimeInputs == 0..MaxSeconds \cup {7199, 7200, 35999, 36000, 86399, 359999, 360000, 363661}
\* start and end times of segments
SegTimes == {5, 3661}
\* segment texts as Whisper returns them, with surrounding whitespace
SegTexts == {<<" ", "a", " ", "b", "\n">>, <<"x">>, <<" ", "\t">>}
Segments == [start : SegTimes, end : SegTimes, text : SegTexts]
\* result["segments"] of model.transcribe
Results == UNION {[1..n -> Segments] : n \in 0..MaxSegments}

VARIABLES
    video_file, output_folder, extract_audio, audio_format,
    transcribe_audio, whisper_model,      \* tk variables (lines 44-49)
    processing,                           \* self.processing (line 51)
    HAS_NUMPY, HAS_WHISPER, HAS_DOCX,     \* importable libraries
    ffmpeg,                               \* what find_ffmpeg finds
    files,                                \* files in the output folders
    thr,                                  \* worker threads: pc and locals
    nRuns,                                \* runs that have ended
    nEdits,                               \* configuration changes during the current run
    dialog,                               \* the messagebox start_processing has just shown
    events,                               \* statuses, log lines and collaborator calls since
                                          \* the last start_processing that went past validation
    seconds, stamp,                       \* format_timestamp: argument and returned string
    result, table, saved                  \* create_docx_transcript: result["segments"], the
                                          \* rows of the table, and whether doc.save returned

config == <<video_file, output_folder, extract_audio, audio_format,
            transcribe_audio, whisper_model>>
env == <<HAS_NUMPY, HAS_WHISPER, HAS_DOCX, ffmpeg>>
\* the functions of the transcript document, applied on their own
fn == <<seconds, stamp, result, table, saved>>
vars == <<config, env, processing, files, thr, nRuns, nEdits, dialog, events, fn>>

(* ---------------- helpers ---------------- *)
\* an entry of the status/log/call history
Ev(k, m, d) == [k |-> k, m |-> m, d |-> d]
Status(m) == Ev("status", m, "")
Log(m) == Ev("log", m, "")
Call(m) == Ev("call", m, "")
\* a messagebox shown by start_processing
Dlg(k, m, missing) == [k |-> k, m |-> m, missing |-> missing]

\* os.path.splitext(os.path.basename(p))[0]: the name without its extension
BaseName(p) == IF Len(p) = 0 THEN <<>> ELSE SubSeq(p, 1, Len(p) - 1)
\* os.path.join(output_dir, f"{base_name}.{audio_format}")
AudioPath(output_dir, base_name, fmt) == output_dir \o base_name \o <<".", fmt>>
\* os.path.join(output_dir, f"{base_name}_temp.wav")
TempPath(output_dir, base_name) == output_dir \o base_name \o <<"_temp", ".", "wav">>
\* os.path.join(output_dir, f"{base_name}_transcript.docx")
DocxPath(output_dir, base_name) == output_dir \o base_name \o <<"_transcript", ".docx">>

\* a thread that has not been started
Fresh == [pc |-> "none", video_path |-> NoPath, output_dir |-> NoPath,
          base_name |-> NoPath, audio_file |-> NoPath, target |-> NoPath,
          tempCall |-> FALSE,
          model_name |-> "", exc |-> Ev("none", "", ""),
          outcome |-> "none",
          rdExtract |-> "unread", rdTranscribe |-> "unread",
          rc |-> -1, outExists |-> FALSE, extractRet |-> "none",
          ffmpegCalls |-> 0, ffmpegFailed |-> FALSE,
          tempMade |-> FALSE, rendered |-> FALSE, renderFailed |-> FALSE,
          rmFailed |-> FALSE, writes |-> <<>>,
          fmtUsed |-> "", heard |-> NoPath,
          accepted |-> <<>>]

Constructed ==
    /\ video_file = NoPath
    /\ output_folder = NoPath
    /\ extract_audio = TRUE
    /\ audio_format = "mp3"
    /\ transcribe_audio = FALSE
    /\ whisper_model = "base"
    /\ processing = FALSE
    /\ HAS_NUMPY \in BOOLEAN
    /\ HAS_WHISPER \in BOOLEAN
    /\ HAS_DOCX \in BOOLEAN
    /\ ffmpeg \in FfmpegInstalls
    /\ files \in FilesAtStart
    /\ thr = [t \in Threads |-> Fresh]
    /\ nRuns = 0
    /\ nEdits = 0
    /\ dialog = Dlg("none", "", <<>>)
    /\ events = <<>>

\* no transcript function has been applied
FnIdle ==
    /\ seconds = 0 /\ stamp = <<>>
    /\ result = <<>> /\ table = <<>> /\ saved = FALSE

Init == Constructed /\ FnIdle

(* ---------------- foreground thread: configuration ---------------- *)
\* a configuration change counts against MaxEdits while a run is in flight;
\* the messagebox of start_processing is modal, so it is gone by then
EditAllowed == processing => nEdits < MaxEdits
EditCount == nEdits' = IF processing THEN nEdits + 1 ELSE nEdits
EditFrame ==
    /\ dialog' = Dlg("none", "", <<>>)
    /\ UNCHANGED <<env, processing, files, thr, nRuns, events, fn>>

SetVideoFile ==
    /\ EditAllowed
    /\ \E v \in VideoChoices : v # video_file /\ video_file' = v
    /\ EditCount /\ EditFrame
    /\ UNCHANGED <<output_folder, extract_audio, audio_format, transcribe_audio, whisper_model>>

SetOutputFolder ==
    /\ EditAllowed
    /\ \E d \in FolderChoices : d # output_folder /\ output_folder' = d
    /\ EditCount /\ EditFrame
    /\ UNCHANGED <<video_file, extract_audio, audio_format, transcribe_audio, whisper_model>>

SetExtractAudio ==
    /\ EditAllowed
    /\ extract_audio' = ~extract_audio
    /\ EditCount /\ EditFrame
    /\ UNCHANGED <<video_file, output_folder, audio_format, transcribe_audio, whisper_model>>

SetAudioFormat ==
    /\ EditAllowed
    /\ \E f \in AudioFormats : f # audio_format /\ audio_format' = f
    /\ EditCount /\ EditFrame
    /\ UNCHANGED <<video_file, output_folder, extract_audio, transcribe_audio, whisper_model>>

SetTranscribeAudio ==
    /\ EditAllowed
    /\ transcribe_audio' = ~transcribe_audio
    /\ EditCount /\ EditFrame
    /\ UNCHANGED <<video_file, output_folder, extract_audio, audio_format, whisper_model>>

SetWhisperModel ==
    /\ EditAllowed
    /\ \E m \in WhisperModels : m # whisper_model /\ whisper_model' = m
    /\ EditCount /\ EditFrame
    /\ UNCHANGED <<video_file, output_folder, extract_audio, audio_format, transcribe_audio>>

(* ---------------- foreground thread: start_processing ---------------- *)
\* mutant of Busy: the guard is missing
BusyNever == FALSE
\* line 375: a run is already in flight
Busy == processing

\* mutant of NoOperationSelected: the check is missing
NoOperationSelectedNever == FALSE
\* line 331: neither operation is selected
NoOperationSelected == ~extract_audio /\ ~transcribe_audio

\* validate_inputs: the error it shows, or "ok"
ValidateInputs ==
    IF video_file = NoPath THEN "Please select a video file."
    ELSE IF video_file \notin ExistingVideos THEN "Video file does not exist."
    ELSE IF output_folder = NoPath THEN "Please select an output folder."
    ELSE IF NoOperationSelected THEN "Please select at least one operation"
    ELSE "ok"

\* find_ffmpeg: the executable found, "None" when there is none
FindFfmpeg ==
    IF ffmpeg = "local" THEN "ffmpeg.exe"
    ELSE IF ffmpeg = "path" THEN "ffmpeg"
    ELSE "None"
\* find_ffmpeg runs `ffmpeg -version` unless ffmpeg.exe lies next to the script
FindFfmpegCalls == IF ffmpeg = "local" THEN <<>> ELSE <<Call("ffmpeg -version")>>

\* check_dependencies: the list of missing dependencies
CheckDependencies ==
    (IF FindFfmpeg = "None" THEN <<"ffmpeg.exe">> ELSE <<>>)
    \o (IF ~HAS_NUMPY THEN <<"numpy">> ELSE <<>>)
    \o (IF ~HAS_WHISPER /\ transcribe_audio THEN <<"openai-whisper">> ELSE <<>>)

\* thread objects not running: never started, or ended
FreeThreads == {t \in Threads : thr[t].pc \in {"none", "done"}}
NewThread == CHOOSE t \in FreeThreads : \A u \in FreeThreads : t <= u

StartProcessing ==
    /\ UNCHANGED <<config, env, files, fn>>
    /\ IF Busy
       THEN /\ dialog' = Dlg("warning", "Processing is already in progress.", <<>>)
            /\ UNCHANGED <<processing, thr, nRuns, nEdits, events>>
       ELSE IF ValidateInputs # "ok"
       THEN /\ dialog' = Dlg("error", ValidateInputs, <<>>)
            /\ UNCHANGED <<processing, thr, nRuns, nEdits, events>>
       ELSE IF CheckDependencies # <<>>
       THEN /\ dialog' = Dlg("error", "Missing Dependencies", CheckDependencies)
            /\ events' = FindFfmpegCalls
            /\ UNCHANGED <<processing, thr, nRuns, nEdits>>
       ELSE \* lines 390-396: threading.Thread(target=self.process_video).start()
            /\ nRuns < MaxRuns
            /\ FreeThreads # {}
            /\ processing' = TRUE
            /\ nEdits' = 0
            /\ thr' = [thr EXCEPT ![NewThread] = [Fresh EXCEPT !.pc = "p400",
                                                               !.accepted = config]]
            /\ UNCHANGED nRuns
            /\ dialog' = Dlg("none", "", <<>>)
            /\ events' = FindFfmpegCalls

(* ---------------- worker thread: process_video ---------------- *)
\* status texts of update_status
StExtracting == "Extracting audio..."
StExtractingTemp == "Extracting audio for transcription..."
StStarting == "Starting transcription..."
StLoading == "Loading Whisper model"
StTranscribing == "Transcribing audio..."
StCompleted == "Processing completed successfully!"
StError == "Error during processing"

\* raise: remember the exception and jump to the except clause (line 435)
Raise(r, kind, detail) == [r EXCEPT !.exc = Ev("exc", kind, detail), !.pc = "except"]

WorkerFrame == UNCHANGED <<config, env, processing, nRuns, nEdits, dialog, fn>>

\* line 400
P400(t) ==
    /\ thr[t].pc = "p400"
    /\ thr' = [thr EXCEPT ![t] = [@ EXCEPT !.video_path = video_file, !.pc = "p401"]]
    /\ UNCHANGED <<files, events>> /\ WorkerFrame

\* lines 401-404
P401(t) ==
    /\ thr[t].pc = "p401"
    /\ thr' = [thr EXCEPT ![t] = [@ EXCEPT !.output_dir = output_folder,
                                           !.base_name = BaseName(thr[t].video_path),
                                           !.audio_file = NoPath,
                                           !.pc = "p407"]]
    /\ UNCHANGED <<files, events>> /\ WorkerFrame

\* lines 407-409: extraction requested?
P407(t) ==
    /\ thr[t].pc = "p407"
    /\ IF extract_audio
       THEN /\ events' = Append(events, Status(StExtracting))
            /\ thr' = [thr EXCEPT ![t] = [@ EXCEPT !.rdExtract = "yes", !.tempCall = FALSE,
                                                   !.pc = "x448"]]
       ELSE /\ events' = events
            /\ thr' = [thr EXCEPT ![t] = [@ EXCEPT !.rdExtract = "no", !.pc = "p412"]]
    /\ UNCHANGED files /\ WorkerFrame

\* mutant of ExtractFormat: format_override is not looked at
ExtractFormatConfigured(r) == audio_format
\* line 448: format_override or self.audio_format.get(); the override is the
\* "wav" of line 417
ExtractFormat(r) == IF r.tempCall THEN "wav" ELSE audio_format

\* extract_audio_from_video, lines 448-464: output path, find_ffmpeg, command line
X448(t) ==
    /\ thr[t].pc = "x448"
    /\ LET r == thr[t]
           fmt == ExtractFormat(r)
           base == IF r.tempCall THEN r.base_name \o <<"_temp">> ELSE r.base_name
       IN  /\ thr' = [thr EXCEPT ![t] = [r EXCEPT !.target = AudioPath(r.output_dir, base, fmt),
                                                  !.fmtUsed = fmt, !.pc = "x466"]]
           /\ events' = (events \o FindFfmpegCalls) \o <<Log("Running ffmpeg")>>
    /\ UNCHANGED files /\ WorkerFrame

\* mutant of ExtractFailed: the exit status is not looked at
ExtractFailedNever(rc) == FALSE
\* line 469: the transcoder failed
ExtractFailed(rc) == rc # 0

\* where extract_audio_from_video returns to: line 409 or lines 417-418
ExtractReturn(r) ==
    IF r.tempCall
    THEN [r EXCEPT !.audio_file = TempPath(r.output_dir, r.base_name), !.pc = "p420"]
    ELSE [r EXCEPT !.audio_file = r.target, !.pc = "p412"]

\* extract_audio_from_video, lines 466-473: run ffmpeg and look at its exit status
X466(t) ==
    /\ thr[t].pc = "x466"
    /\ LET r == thr[t] IN
       IF FindFfmpeg = "None"
       THEN \* Popen with a None executable raises
            /\ thr' = [thr EXCEPT ![t] = Raise(r, "TypeError", "")]
            /\ UNCHANGED <<files, events>>
       ELSE \E rc \in {0, 1}, made \in BOOLEAN, diag \in Diagnostics :
            \* ffmpeg fails and writes nothing when its input file is not there
            /\ r.video_path \notin ExistingVideos => (rc = 1 /\ ~made)
            /\ LET after == IF made THEN files \cup {r.target}
                            ELSE IF rc = 0 THEN files \ {r.target} ELSE files
                   r1 == [r EXCEPT !.rc = rc, !.outExists = (r.target \in after),
                                !.ffmpegCalls = @ + 1,
                                !.ffmpegFailed = @ \/ (rc # 0),
                                !.tempMade = @ \/ (r.tempCall /\ made),
                                !.writes = IF after = files /\ ~made THEN @
                                           ELSE Append(@, <<"write", r.target>>)]
               IN  /\ files' = after
                   /\ IF ExtractFailed(rc)
                      THEN /\ thr' = [thr EXCEPT ![t] =
                                        Raise([r1 EXCEPT !.extractRet = "raised"], "FFmpeg error", diag)]
                           /\ events' = Append(events, Call("ffmpeg"))
                      ELSE /\ thr' = [thr EXCEPT ![t] = ExtractReturn([r1 EXCEPT !.extractRet = "returned"])]
                           /\ events' = events \o <<Call("ffmpeg"), Log("Audio extracted")>>
    /\ WorkerFrame

\* lines 412-418: transcription requested? is an audio file at hand?
P412(t) ==
    /\ thr[t].pc = "p412"
    /\ LET r == thr[t] IN
       IF ~transcribe_audio
       THEN /\ thr' = [thr EXCEPT ![t] = [r EXCEPT !.rdTranscribe = "no", !.pc = "p432"]]
            /\ events' = events
       ELSE IF r.audio_file = NoPath
       THEN /\ thr' = [thr EXCEPT ![t] = [r EXCEPT !.rdTranscribe = "yes", !.tempCall = TRUE,
                                                   !.pc = "x448"]]
            /\ events' = Append(events, Status(StExtractingTemp))
       ELSE /\ thr' = [thr EXCEPT ![t] = [r EXCEPT !.rdTranscribe = "yes", !.pc = "p420"]]
            /\ events' = events
    /\ UNCHANGED files /\ WorkerFrame

\* mutant of StatusBeforeLoad: the two statuses of transcribe_with_whisper swapped
StatusBeforeLoadSwapped == StTranscribing
\* the status emitted before whisper.load_model (line 489)
StatusBeforeLoad == StLoading

\* lines 420-421, transcribe_audio_file 477-483, transcribe_with_whisper 489
P420(t) ==
    /\ thr[t].pc = "p420"
    /\ LET r == thr[t] IN
       IF ~HAS_WHISPER
       THEN /\ thr' = [thr EXCEPT ![t] = Raise(r, "OpenAI Whisper is not installed", "")]
            /\ events' = Append(events, Status(StStarting))
       ELSE /\ thr' = [thr EXCEPT ![t] = [r EXCEPT !.model_name = whisper_model, !.pc = "p490"]]
            /\ events' = events \o <<Status(StStarting), Status(StatusBeforeLoad)>>
    /\ UNCHANGED files /\ WorkerFrame

\* lines 490-492: whisper.load_model returns or raises
P490(t) ==
    /\ thr[t].pc = "p490"
    /\ LET r == thr[t] IN
       \/ /\ thr' = [thr EXCEPT ![t] = [r EXCEPT !.pc = "p493"]]
          /\ events' = events \o <<Call("load_model"), Status(StTranscribing)>>
       \/ /\ thr' = [thr EXCEPT ![t] = Raise(r, "load_model failed", "")]
          /\ events' = Append(events, Call("load_model"))
    /\ UNCHANGED files /\ WorkerFrame

\* line 493: model.transcribe returns a result or raises; it raises when the
\* audio file is not there
P493(t) ==
    /\ thr[t].pc = "p493"
    /\ events' = Append(events, Call("transcribe"))
    /\ LET r == thr[t] IN
       \/ /\ r.audio_file \in files
          /\ thr' = [thr EXCEPT ![t] = [r EXCEPT !.heard = r.audio_file, !.pc = "p497"]]
       \/ thr' = [thr EXCEPT ![t] = Raise([r EXCEPT !.heard = r.audio_file], "transcribe failed", "")]
    /\ UNCHANGED files /\ WorkerFrame

\* lines 495-498 and create_docx_transcript 511-594
P497(t) ==
    /\ thr[t].pc = "p497"
    /\ LET r == thr[t]
           docx_file == DocxPath(r.output_dir, r.base_name)
       IN
       IF ~HAS_DOCX
       THEN \* ImportError: two log lines and return (lines 520-523), then line 498
            /\ thr' = [thr EXCEPT ![t] = [r EXCEPT !.renderFailed = TRUE, !.pc = "p424"]]
            /\ events' = events \o <<Call("create_docx_transcript"),
                                       Log("Warning: python-docx not installed"),
                                       Log("Word document saved")>>
            /\ files' = files
       ELSE \/ \* doc.save wrote the document
               /\ thr' = [thr EXCEPT ![t] = [r EXCEPT !.rendered = TRUE, !.pc = "p424",
                                                      !.writes = Append(@, <<"write", docx_file>>)]]
               /\ events' = events \o <<Call("create_docx_transcript"), Log("Word document saved")>>
               /\ files' = files \cup {docx_file}
            \/ \* doc.save raised
               /\ thr' = [thr EXCEPT ![t] = Raise([r EXCEPT !.renderFailed = TRUE], "save failed", "")]
               /\ events' = Append(events, Call("create_docx_transcript"))
               /\ files' = files
    /\ WorkerFrame

\* mutant of CleanupFailureRaises: no try/except around os.remove
CleanupFailureRaisesAlways == TRUE
\* lines 429-430: a failed os.remove is not raised
CleanupFailureRaises == FALSE

\* mutant of CleanupTarget: the audio file that was transcribed is removed
CleanupTargetAudio(r) == r.audio_file
\* line 424: the file the cleanup removes
CleanupTarget(r) == TempPath(r.output_dir, r.base_name)

\* lines 423-430: remove the temporary audio file
P424(t) ==
    /\ thr[t].pc = "p424"
    /\ LET r == thr[t]
           temp_audio == CleanupTarget(r)
       IN
       IF temp_audio \in files
       THEN \/ /\ files' = files \ {temp_audio}
               /\ thr' = [thr EXCEPT ![t] = [r EXCEPT !.pc = "p432",
                                                      !.writes = Append(@, <<"delete", temp_audio>>)]]
               /\ events' = events \o <<Call("remove"), Log("Cleaned up temporary audio file")>>
            \/ /\ files' = files
               /\ thr' = [thr EXCEPT ![t] =
                              IF CleanupFailureRaises
                              THEN Raise([r EXCEPT !.rmFailed = TRUE], "remove failed", "")
                              ELSE [r EXCEPT !.rmFailed = TRUE, !.pc = "p432"]]
               /\ events' = Append(events, Call("remove"))
       ELSE /\ thr' = [thr EXCEPT ![t] = [r EXCEPT !.pc = "p432"]]
            /\ UNCHANGED <<files, events>>
    /\ WorkerFrame

\* lines 432-433: the status, then messagebox.showinfo, which is modal: the
\* call returns when the user has dismissed the dialog
P432(t) ==
    /\ thr[t].pc = "p432"
    /\ thr' = [thr EXCEPT ![t] = [@ EXCEPT !.outcome = "success", !.pc = "p433"]]
    /\ events' = Append(events, Status(StCompleted))
    /\ UNCHANGED files /\ WorkerFrame

\* lines 435-439: the error status, then messagebox.showerror, modal as well
Except(t) ==
    /\ thr[t].pc = "except"
    /\ thr' = [thr EXCEPT ![t] = [@ EXCEPT !.outcome = "error", !.pc = "p439"]]
    /\ events' = events \o <<Ev("status", StError, thr[t].exc.d), Log("Full error details")>>
    /\ UNCHANGED files /\ WorkerFrame

\* lines 433 and 439: the user dismisses the outcome dialog, and the
\* messagebox call of the worker thread returns
DismissOutcome(t) ==
    /\ thr[t].pc \in {"p433", "p439"}
    /\ thr' = [thr EXCEPT ![t] = [@ EXCEPT !.pc = "p442"]]
    /\ UNCHANGED <<files, events>> /\ WorkerFrame

\* mutant of FlagAfterRun: the finally clause leaves the flag set
FlagAfterRunKept == TRUE
\* line 442: self.processing = False
FlagAfterRun == FALSE

\* lines 441-444; the thread ends and its locals are gone
P442(t) ==
    /\ thr[t].pc = "p442"
    /\ processing' = FlagAfterRun
    /\ thr' = [thr EXCEPT ![t] = [Fresh EXCEPT !.pc = "done"]]
    /\ events' = <<>>
    /\ nEdits' = 0
    /\ nRuns' = nRuns + 1
    /\ UNCHANGED <<config, env, files, dialog, fn>>

Next ==
    \/ SetVideoFile
    \/ SetOutputFolder
    \/ SetExtractAudio
    \/ SetAudioFormat
    \/ SetTranscribeAudio
    \/ SetWhisperModel
    \/ StartProcessing
    \/ \E t \in Threads : P400(t)
    \/ \E t \in Threads : P401(t)
    \/ \E t \in Threads : P407(t)
    \/ \E t \in Threads : X448(t)
    \/ \E t \in Threads : X466(t)
    \/ \E t \in Threads : P412(t)
    \/ \E t \in Threads : P420(t)
    \/ \E t \in Threads : P490(t)
    \/ \E t \in Threads : P493(t)
    \/ \E t \in Threads : P497(t)
    \/ \E t \in Threads : P424(t)
    \/ \E t \in Threads : P432(t)
    \/ \E t \in Threads : Except(t)
    \/ \E t \in Threads : DismissOutcome(t)
    \/ \E t \in Threads : P442(t)

Spec == Init /\ [][Next]_vars

(* ---------------- the transcript document's functions ---------------- *)
Digits == <<"0", "1", "2", "3", "4", "5", "6", "7", "8", "9">>
\* str(n) of a natural number, one character per digit
RECURSIVE Decimal(_)
Decimal(n) == IF n < 10 THEN <<Digits[n + 1]>> ELSE Decimal(n \div 10) \o <<Digits[(n % 10) + 1]>>
\* f"{n:02d}": at least two digits, padded with a zero on the left
Pad02(n) == IF Len(Decimal(n)) < 2 THEN <<"0">> \o Decimal(n) ELSE Decimal(n)

\* mutant of HasHours: the hours field is always written
HasHoursAlways(hours) == hours >= 0
\* line 506
HasHours(hours) == hours > 0

\* lines 500-509
FormatTimestamp(s) ==
    LET hours == s \div 3600
        minutes == (s % 3600) \div 60
        secs == s % 60
    IN  IF HasHours(hours)
        THEN Pad02(hours) \o <<":">> \o Pad02(minutes) \o <<":">> \o Pad02(secs)
        ELSE Pad02(minutes) \o <<":">> \o Pad02(secs)

InitFormat ==
    /\ Constructed /\ HAS_NUMPY /\ HAS_WHISPER /\ HAS_DOCX /\ ffmpeg = "path" /\ files = {}
    /\ seconds \in TimeInputs /\ stamp = <<>>
    /\ result = <<>> /\ table = <<>> /\ saved = FALSE

\* a call of format_timestamp(seconds)
CallFormatTimestamp ==
    /\ stamp = <<>>
    /\ stamp' = FormatTimestamp(seconds)
    /\ UNCHANGED <<config, env, processing, files, thr, nRuns, nEdits, dialog, events>>
    /\ UNCHANGED <<seconds, result, table, saved>>

NextFormat == CallFormatTimestamp

SpecFormat == InitFormat /\ [][NextFormat]_vars

\* str.strip(): whitespace removed at both ends
IsSpace(c) == c \in {" ", "\t", "\n", "\r"}
RECURSIVE LStrip(_)
LStrip(s) == IF s = <<>> THEN s ELSE IF IsSpace(Head(s)) THEN LStrip(Tail(s)) ELSE s
RECURSIVE RStrip(_)
RStrip(s) ==
    IF s = <<>> THEN s
    ELSE IF IsSpace(s[Len(s)]) THEN RStrip(SubSeq(s, 1, Len(s) - 1)) ELSE s
Strip(s) == RStrip(LStrip(s))

\* mutant of CellText: the text is written as Whisper returned it
CellTextRaw(segment) == segment.text
\* line 556
CellText(segment) == Strip(segment.text)

\* lines 554-570: the row of one segment, timestamps left and text right
Row(segment) ==
    [left  |-> FormatTimestamp(segment.start) \o <<"\n">> \o FormatTimestamp(segment.end),
     right |-> CellText(segment)]

\* lines 546 and 553-577: rows=0, then table.add_row() for each segment in turn
RECURSIVE AddRows(_, _)
AddRows(rows, segments) ==
    IF segments = <<>> THEN rows
    ELSE AddRows(Append(rows, Row(Head(segments))), Tail(segments))

InitRender ==
    /\ Constructed /\ HAS_NUMPY /\ HAS_WHISPER /\ ffmpeg = "path" /\ files = {}
    /\ seconds = 0 /\ stamp = <<>>
    /\ result \in Results /\ table = <<>> /\ saved = FALSE

\* create_docx_transcript(result, docx_file, base_name), lines 511-594
CreateDocxTranscript ==
    /\ ~saved /\ events = <<>>
    /\ IF ~HAS_DOCX
       THEN \* ImportError, lines 520-523
            /\ events' = <<Log("Warning: python-docx not installed")>>
            /\ UNCHANGED <<table, saved>>
       ELSE \/ \* doc.save returned
               /\ table' = AddRows(<<>>, result)
               /\ saved' = TRUE
               /\ events' = events
            \/ \* doc.save raised: no document
               /\ events' = <<Log("save failed")>>
               /\ UNCHANGED <<table, saved>>
    /\ UNCHANGED <<config, env, processing, files, thr, nRuns, nEdits, dialog>>
    /\ UNCHANGED <<seconds, stamp, result>>

NextRender == CreateDocxTranscript

SpecRender == InitRender /\ [][NextRender]_vars

(* ======================= properties ======================= *)
\* The request a run executes is what its thread reads: extract_audio at line
\* 407 (rdExtract) and transcribe_audio at line 412 (rdTranscribe).  Properties
\* about "a run with extractAudio=..., transcribe=..." are stated over these.
InFlight(t) == thr[t].pc \notin {"none", "done"}
\* the run has reported its outcome and is about to reset the busy flag (line 442)
Ended(t) == thr[t].pc = "p442"
Range(q) == {q[i] : i \in 1..Len(q)}
IsCollaboratorCall(e) == e.k = "call"
InvalidInputMessages == {"Please select a video file.", "Video file does not exist.",
                         "Please select an output folder.",
                         "Please select at least one operation"}

\* C1: at most one run is in flight at any time, and a start_processing call
\* made while processing is true only shows the busy warning: it starts no
\* thread, calls no collaborator and leaves all files as they are.
C1_BusyStep ==
    (StartProcessing /\ processing) =>
        /\ dialog'.k = "warning"
        /\ dialog'.m = "Processing is already in progress."
        /\ UNCHANGED <<thr, events, files, processing, nRuns>>
C1_OneRunInFlight ==
    /\ [](Cardinality({t \in Threads : InFlight(t)}) <= 1)
    /\ [][C1_BusyStep]_vars
C1_Witness ==
    /\ dialog.k = "warning"
    /\ processing
    /\ \E t \in Threads : InFlight(t) /\ Call("ffmpeg") \in Range(events)

\* C2: a run that transcribes without extraction and has created its
\* temporary audio file leaves no such file behind when it has ended,
\* whether it succeeded or failed after the file was created (a failed
\* deletion, which is best effort, set aside).
C2_TempGoneAfterRun ==
    \A t \in Threads :
        (Ended(t) /\ thr[t].rdExtract = "no" /\ thr[t].rdTranscribe = "yes"
            /\ thr[t].tempMade /\ ~thr[t].rmFailed)
        => /\ thr[t].ffmpegCalls = 1
           /\ TempPath(thr[t].output_dir, thr[t].base_name) \notin files

\* C3: once an ffmpeg run of this run has exited non-zero, the speech model
\* is neither loaded nor invoked, the renderer is not invoked, the completed
\* status is not emitted, and the run ends with an error outcome whose status
\* carries ffmpeg's stderr.
C3_TranscoderFailureAborts ==
    \A t \in Threads :
        thr[t].ffmpegFailed =>
            /\ thr[t].pc \in {"except", "p439", "p442"}
            /\ thr[t].exc.m = "FFmpeg error"
            /\ thr[t].exc.d \in Diagnostics
            /\ \A e \in Range(events) :
                   /\ e \notin {Call("load_model"), Call("transcribe"),
                                 Call("create_docx_transcript")}
                   /\ e # Status(StCompleted)
            /\ Ended(t) => /\ thr[t].outcome = "error"
                            /\ Ev("status", StError, thr[t].exc.d) \in Range(events)
C3_Witness ==
    \E t \in Threads :
        /\ Ended(t) /\ thr[t].ffmpegFailed
        /\ thr[t].tempCall /\ thr[t].rdTranscribe = "yes"

\* C4: a start_processing call made while idle with neither operation
\* selected shows an invalid-input error and does nothing else: no
\* collaborator call (the `ffmpeg -version` probe included), no worker
\* thread, and the busy flag stays false.
C4_NothingSelectedStep ==
    (StartProcessing /\ ~processing /\ ~extract_audio /\ ~transcribe_audio) =>
        /\ dialog'.k = "error"
        /\ dialog'.m \in InvalidInputMessages
        /\ ~processing'
        /\ UNCHANGED <<thr, events, files>>
C4_NothingSelectedRejected == [][C4_NothingSelectedStep]_vars
C4_Witness ==
    /\ dialog.m = "Please select at least one operation"
    /\ ~extract_audio /\ ~transcribe_audio
    /\ ~processing /\ events = <<>>
    /\ \A t \in Threads : ~InFlight(t)

\* the collaborators the requested operations need, and those that are not there
Needed ==
    {"ffmpeg.exe"} \cup (IF transcribe_audio THEN {"openai-whisper", "python-docx"} ELSE {})
Unavailable ==
    (IF FindFfmpeg = "None" THEN {"ffmpeg.exe"} ELSE {})
    \cup (IF ~HAS_WHISPER THEN {"openai-whisper"} ELSE {})
    \cup (IF ~HAS_DOCX THEN {"python-docx"} ELSE {})

\* C5: a start_processing call that passes validation is rejected with a
\* missing-dependency error naming every unavailable collaborator that the
\* requested operations need, before any pipeline step; and it is accepted
\* when nothing that they need is unavailable.  (Stated for an installation
\* that has NumPy, which is none of the three collaborators.)
C5_DependencyStep ==
    (StartProcessing /\ ~processing /\ ValidateInputs = "ok" /\ HAS_NUMPY) =>
        IF Needed \cap Unavailable # {}
        THEN /\ dialog'.m = "Missing Dependencies"
             /\ (Needed \cap Unavailable) \subseteq Range(dialog'.missing)
             /\ ~processing'
             /\ UNCHANGED <<thr, files>>
        ELSE processing'
C5_FailFastOnMissingDependency == [][C5_DependencyStep]_vars

\* C6: a run that read transcribe=true and ends with the completed status has
\* written the transcript document; a render step that did not write it
\* ends the run with an error.
C6_CompletedMeansWritten ==
    \A t \in Threads :
        /\ (Ended(t) /\ thr[t].outcome = "success" /\ thr[t].rdTranscribe = "yes")
            => /\ thr[t].rendered
               /\ DocxPath(thr[t].output_dir, thr[t].base_name) \in files
        /\ (Ended(t) /\ thr[t].renderFailed) => thr[t].outcome = "error"

\* the rank of an entry in the order of the pipeline's steps; 0: not ranked
\* (log lines and the `ffmpeg -version` probe)
StepRank(e) ==
    IF e.k = "status"
    THEN CASE e.m = StExtracting -> 1
           [] e.m = StExtractingTemp -> 2
           [] e.m = StStarting -> 4
           [] e.m = StLoading -> 5
           [] e.m = StTranscribing -> 7
           [] e.m = StCompleted -> 11
           [] e.m = StError -> 12
           [] OTHER -> 0
    ELSE IF e.k = "call"
    THEN CASE e.m = "ffmpeg" -> 3
           [] e.m = "load_model" -> 6
           [] e.m = "transcribe" -> 8
           [] e.m = "create_docx_transcript" -> 9
           [] e.m = "remove" -> 10
           [] OTHER -> 0
    ELSE 0
Before(a, b) ==
    \E i, j \in 1..Len(events) : i < j /\ events[i] = a /\ events[j] = b
Emitted(a) == a \in Range(events)
\* the ranks of the ranked entries, in the order of their emission
StepRanks ==
    SelectSeq([i \in 1..Len(events) |-> StepRank(events[i])], LAMBDA n : n > 0)

\* C7: the steps of a run happen one after the other in the order requested
\* extraction, temporary extraction, model load, inference, rendering,
\* cleanup, completed; each step is preceded by the step before it; the
\* loading status precedes the model load, the transcribing status lies
\* between model load and inference; the completed status is the last status.
C7_StepsInOrder ==
    LET steps == StepRanks
        Has(e) == LET n == StepRank(e) IN \E i \in 1..Len(steps) : steps[i] = n
    IN
    \* strictly increasing: in step order, and no step twice
    /\ \A i \in 1..(Len(steps) - 1) : steps[i] < steps[i + 1]
    \* with the order above, "x is there" means "x came before"
    /\ Has(Call("ffmpeg")) => Has(Status(StExtracting)) \/ Has(Status(StExtractingTemp))
    /\ Has(Call("load_model")) => Has(Status(StLoading))
    /\ Has(Call("transcribe")) => Has(Call("load_model")) /\ Has(Status(StTranscribing))
    /\ Has(Call("create_docx_transcript")) => Has(Call("transcribe"))
    /\ Has(Call("remove")) => Has(Call("create_docx_transcript"))
    /\ \A t \in Threads :
           /\ thr[t].rdExtract = "yes" /\ thr[t].pc \notin {"x448", "x466"}
                 => Has(Call("ffmpeg"))
           /\ (Has(Status(StCompleted)) /\ thr[t].rdTranscribe = "yes")
                 => Has(Call("create_docx_transcript"))
           /\ (Ended(t) /\ thr[t].outcome = "success")
                 => /\ Len(events) > 0
                    /\ events[Len(events)] = Status(StCompleted)
C7_Witness ==
    \E t \in Threads :
        /\ Ended(t) /\ thr[t].outcome = "success"
        /\ thr[t].rdExtract = "no" /\ thr[t].rdTranscribe = "yes"
        /\ Emitted(Call("remove")) /\ Emitted(Status(StExtractingTemp))

\* the failed render step has been reported: by the warning in the log, or
\* by the error status of the except clause (which a raised exception reaches)
RenderFailureReported(t) ==
    \/ Emitted(Log("Warning: python-docx not installed"))
    \/ thr[t].pc = "except"
    \/ /\ thr[t].pc \in {"p439", "p442"} /\ thr[t].outcome = "error"
       /\ \E e \in Range(events) : StepRank(e) = 12

\* C8: when the render step of a run that read extractAudio=true has not
\* written the document, the failure is reported, the audio file the run
\* extracted is still there, and the run has touched that file only once,
\* when ffmpeg wrote it: no step deleted or rewrote it.
C8_RenderFailureKeepsAudio ==
    \A t \in Threads :
        (thr[t].renderFailed /\ thr[t].rdExtract = "yes")
        => /\ RenderFailureReported(t)
           /\ thr[t].audio_file # NoPath
           /\ thr[t].audio_file \in files
           /\ Cardinality({i \in 1..Len(thr[t].writes) :
                               thr[t].writes[i][2] = thr[t].audio_file}) = 1
           /\ <<"write", thr[t].audio_file>> \in Range(thr[t].writes)
C8_Witness ==
    \E t \in Threads :
        /\ Ended(t) /\ thr[t].renderFailed /\ thr[t].rdExtract = "yes"
        /\ thr[t].outcome = "error" /\ thr[t].exc.m = "save failed"
        /\ thr[t].audio_file \in files

\* C9: extract_audio_from_video returns the audio path exactly when ffmpeg
\* exited with status zero and the output file exists; otherwise it raises.
C9_ExtractChecksExitAndFile ==
    \A t \in Threads :
        thr[t].extractRet # "none"
        => (thr[t].extractRet = "returned" <=> (thr[t].rc = 0 /\ thr[t].outExists))

\* the entry that follows the os.remove call is a log line
CleanupLogged ==
    \E i \in 1..Len(events) :
        events[i] = Call("remove") /\ i < Len(events) /\ events[i + 1].k = "log"

DigitValue(c) == CHOOSE d \in 0..9 : Digits[d + 1] = c
IsDigits(q) == \A i \in 1..Len(q) : q[i] \in Range(Digits)
\* the number a string of digits denotes
RECURSIVE NumberOf(_)
NumberOf(q) ==
    IF q = <<>> THEN 0 ELSE 10 * NumberOf(SubSeq(q, 1, Len(q) - 1)) + DigitValue(q[Len(q)])
\* a field of a timestamp: digits, two at least, a leading zero only as padding
IsField(q, n) ==
    /\ Len(q) >= 2 /\ IsDigits(q) /\ NumberOf(q) = n
    /\ Len(q) > 2 => q[1] # "0"

\* C12: format_timestamp(s) for 0 <= s <= 3599 is MM:SS with minutes s div 60
\* and seconds s mod 60 and no hours field; for s >= 3600 it is HH:MM:SS with
\* hours s div 3600, minutes (s mod 3600) div 60, seconds s mod 60, every
\* field padded with zeros to two digits; 75 gives 01:15, 3661 gives 01:01:01.
C12_TimestampFormat ==
    stamp # <<>> =>
        LET n == Len(stamp) IN
        /\ (0 <= seconds /\ seconds <= 3599) =>
              /\ n = 5 /\ stamp[3] = ":"
              /\ IsField(SubSeq(stamp, 1, 2), seconds \div 60)
              /\ IsField(SubSeq(stamp, 4, 5), seconds % 60)
        /\ seconds >= 3600 =>
              /\ n >= 8 /\ stamp[n - 2] = ":" /\ stamp[n - 5] = ":"
              /\ IsField(SubSeq(stamp, 1, n - 6), seconds \div 3600)
              /\ IsField(SubSeq(stamp, n - 4, n - 3), (seconds % 3600) \div 60)
              /\ IsField(SubSeq(stamp, n - 1, n), seconds % 60)
        /\ seconds = 75 => stamp = <<"0", "1", ":", "1", "5">>
        /\ seconds = 3661 => stamp = <<"0", "1", ":", "0", "1", ":", "0", "1">>
\* format_timestamp(3599) returned the last time without an hours field
C12_Witness == seconds = 3599 /\ stamp = <<"5", "9", ":", "5", "9">>

\* cell is text without its leading and trailing whitespace
IsTrimOf(cell, text) ==
    /\ cell # <<>> => ~IsSpace(cell[1]) /\ ~IsSpace(cell[Len(cell)])
    /\ \E i \in 0..Len(text) :
          /\ i + Len(cell) <= Len(text)
          /\ cell = SubSeq(text, i + 1, i + Len(cell))
          /\ \A k \in 1..Len(text) : (k <= i \/ k > i + Len(cell)) => IsSpace(text[k])

\* C13: the table of a saved document has one row for each segment of the
\* result, in the order of the segments; the left cell of row i holds the
\* formatted start of segment i followed by its formatted end, the right
\* cell the text of segment i without leading and trailing whitespace.
C13_RowPerSegment ==
    saved =>
        /\ Len(table) = Len(result)
        /\ \A i \in 1..Len(result) :
              /\ table[i].left = FormatTimestamp(result[i].start) \o <<"\n">>
                                      \o FormatTimestamp(result[i].end)
              /\ IsTrimOf(table[i].right, result[i].text)
\* a document of two different segments, whitespace taken off the first
C13_Witness ==
    /\ saved /\ Len(result) = 2 /\ Len(table) = 2
    /\ result[1] # result[2]
    /\ result[1].start = 5 /\ result[1].end = 3661
    /\ result[1].text = <<" ", "a", " ", "b", "\n">>
    /\ table[1].right = <<"a", " ", "b">>
    /\ table[1].left = <<"0", "0", ":", "0", "5", "\n", "0", "1", ":", "0", "1", ":", "0", "1">>

(* ---------------- which audio the transcriber hears ---------------- *)
\* C14: when model.transcribe has been called, ffmpeg was invoked exactly once
\* in the run.  With extraction requested the transcriber received the
\* extracted file {base}.{audio format} and no temporary file was made; with
\* transcription alone ffmpeg was invoked for {base}_temp.wav, a WAV file
\* whatever the configured audio format, and the transcriber received it.
C14_OneExtractionFeedsTranscriber ==
    \A t \in Threads :
        LET r == thr[t]
            temp == TempPath(r.output_dir, r.base_name)
        IN
        r.heard # NoPath =>
            /\ r.ffmpegCalls = 1
            /\ r.heard = r.target
            /\ r.rdExtract = "yes" =>
                  /\ r.heard = AudioPath(r.output_dir, r.base_name, r.fmtUsed)
                  /\ ~r.tempMade
                  /\ \A i \in 1..Len(r.writes) : r.writes[i] # <<"write", temp>>
            /\ r.rdExtract = "no" =>
                  /\ r.heard = temp
                  /\ r.heard[Len(r.heard)] = "wav"
                  /\ r.fmtUsed = "wav"
\* transcription alone with mp3 configured: the transcriber got the temporary WAV
C14_Witness ==
    \E t \in Threads :
        /\ thr[t].pc = "p497" /\ thr[t].rdExtract = "no"
        /\ audio_format = "mp3"
        /\ thr[t].heard = <<"out", "a", "_temp", ".", "wav">>
        /\ thr[t].ffmpegCalls = 1

(* ---------------- files a run may delete ---------------- *)
\* C15: a run that extracts audio (extract_audio read true) deletes no file:
\* a file {base}_temp.wav that was there before the run is still there after.
C15_ExtractingRunDeletesNothing ==
    \A t \in Threads :
        thr[t].rdExtract = "yes" =>
            \A i \in 1..Len(thr[t].writes) : thr[t].writes[i][1] # "delete"

(* ---------------- the request a run executes ---------------- *)
\* thr[t].accepted is the configuration validate_inputs saw when the run was
\* accepted: video_file, output_folder, extract_audio, audio_format,
\* transcribe_audio, whisper_model.
\* C16: a run executes the request that was validated when it was accepted:
\* what the worker reads (video path, output folder, whether to extract and to
\* transcribe, audio format, model) is what was accepted, whatever the
\* foreground thread changes meanwhile; a run accepted with transcription off
\* never calls whisper.load_model or model.transcribe.
C16_RunExecutesAcceptedRequest ==
    \A t \in Threads :
        LET r == thr[t]
            a == r.accepted
        IN
        InFlight(t) =>
            /\ r.pc # "p400" => r.video_path = a[1]
            /\ r.pc \notin {"p400", "p401"} => r.output_dir = a[2]
            /\ r.rdExtract # "unread" => (r.rdExtract = "yes") = a[3]
            /\ (r.fmtUsed # "" /\ ~r.tempCall) => r.fmtUsed = a[4]
            /\ r.rdTranscribe # "unread" => (r.rdTranscribe = "yes") = a[5]
            /\ r.model_name # "" => r.model_name = a[6]
            /\ ~a[5] => /\ r.heard = NoPath
                        /\ Call("load_model") \notin Range(events)
                        /\ Call("transcribe") \notin Range(events)

\* a step of the worker thread that needs nobody else
WorkerStep(t) ==
    \/ P400(t) \/ P401(t) \/ P407(t) \/ X448(t) \/ X466(t) \/ P412(t) \/ P420(t)
    \/ P490(t) \/ P493(t) \/ P497(t) \/ P424(t) \/ P432(t) \/ Except(t) \/ P442(t)

\* A started thread is scheduled until process_video returns, and every call
\* it makes returns or raises: ffmpeg, Whisper, python-docx, and the modal
\* outcome dialog, which returns when the user dismisses it.
Fairness == \A t \in Threads : WF_vars(WorkerStep(t) \/ DismissOutcome(t))
SpecLive == Spec /\ Fairness

\* C11: notifying the observer never blocks the pipeline: in every state of
\* a run in flight the worker thread can take its next step by itself,
\* whether or not the foreground side consumes what it was shown.
C11_DeliveryNeverBlocks ==
    \A t \in Threads : InFlight(t) => ENABLED WorkerStep(t)

(* ---------------- the busy flag ---------------- *)
\* processing becomes True only in a start_processing that passed validation
\* and the dependency check and started a worker thread
BusyFlagSetStep ==
    (~processing /\ processing') =>
        /\ ValidateInputs = "ok" /\ CheckDependencies = <<>>
        /\ \E t \in Threads : ~InFlight(t) /\ thr'[t].pc = "p400"
        /\ \A t \in Threads : ~InFlight(t)
\* with no run in flight a start_processing is not answered "already in progress"
NotRejectedAsBusyStep ==
    (\A t \in Threads : ~InFlight(t)) => dialog'.k # "warning"

====
